---------------------------- MODULE Spec2Model ----------------------------
(***************************************************************************)
(* Model of the realm-js schema normalisation pipeline                     *)
(* (schema/normalize.js) and of the List and Dictionary collection         *)
(* adapters (List.js, Dictionary.js).                                      *)
(*                                                                         *)
(* JavaScript strings that name property types are modelled as sequences   *)
(* of tokens: a base name (such as "int" or "Person") followed by suffix   *)
(* tokens "[]", "<>", "{}" and "?".  The string "Person?[]" is             *)
(* <<"Person", "?", "[]">> and the empty string is << >>.                  *)
(*                                                                         *)
(* A JavaScript object is a function from the keys that hold a defined     *)
(* value to those values; an absent key reads as undefined.  A raw         *)
(* declaration additionally carries the set of its keys whose value is     *)
(* explicitly undefined.                                                   *)
(***************************************************************************)
EXTENDS Integers, Sequences, FiniteSets, TLC

VARIABLES
    call,           \* schema pipeline: the last call made and what it returned
    flags,          \* schema pipeline: the feature flags of the build
    list,           \* List: the engine's list (binding values)
    isEmbedded,     \* List: the adapter's isEmbedded field
    listCall,       \* List: the last adapter operation and its outcome
    dict,           \* Dictionary: the engine's dictionary, <<key, value>> pairs
    gens,           \* Dictionary: the generator objects keys()/values()/entries() returned
    dictCall,       \* Dictionary: the last adapter operation and its outcome
    inTransaction,  \* the realm's write-transaction state
    registered,     \* notifications: the number of callbacks registered with the engine
    immediates,     \* notifications: tasks scheduled with setImmediate
    deliveries,     \* notifications: outcome of each engine delivery call
    uncaught        \* notifications: errors raised from scheduled tasks

vars == <<call, flags, list, isEmbedded, listCall, dict, gens, dictCall,
          inTransaction, registered, immediates, deliveries, uncaught>>

schemaVars == <<call, flags>>
listVars == <<list, isEmbedded, listCall>>
dictVars == <<dict, gens, dictCall>>
notifyVars == <<registered, immediates, deliveries, uncaught>>

-----------------------------------------------------------------------------
(* Bounds *)

MaxSuffixes == 3
MaxObjSuffixes == 1
MaxProps == 2
MaxLen == 3
MaxItems == 2
MaxGens == 1
MaxListeners == 2
MaxDeliveries == 3

-----------------------------------------------------------------------------
(* Strings *)

Str(t) == <<t>>

EndsWith(s, suffix) == Len(s) > 0 /\ s[Len(s)] = suffix

DropSuffix(s) == SubSeq(s, 1, Len(s) - 1)

SuffixTokens == {"[]", "<>", "{}", "?"}

BaseTokens == {"int", "string", "mixed", "list", "set", "dictionary", "object", "Person"}

RECURSIVE SuffixSeqs(_)
SuffixSeqs(n) ==
    IF n = 0 THEN {<< >>}
    ELSE LET shorter == SuffixSeqs(n - 1)
         IN  shorter \cup {Append(s, t) : s \in shorter, t \in SuffixTokens}

TypeStrings(n) ==
    SuffixSeqs(n) \cup {<<b>> \o s : b \in BaseTokens, s \in SuffixSeqs(n)}

-----------------------------------------------------------------------------
(* Results of a call: a returned value or a thrown error *)

Return(v) == [ok |-> TRUE, val |-> v]

Throw(e) == [ok |-> FALSE, err |-> e]

(* Object spread {...a, ...b} *)
Spread(a, b) ==
    [k \in DOMAIN a \cup DOMAIN b |-> IF k \in DOMAIN b THEN b[k] ELSE a[k]]

Without(o, key) == [k \in DOMAIN o \ {key} |-> o[k]]

-----------------------------------------------------------------------------
(* schema/normalize.js *)

PRIMITIVE_TYPES ==
    {"bool", "int", "float", "double", "decimal128", "objectId", "string",
     "data", "date", "mixed", "uuid"}

isPrimitive(type) == Len(type) = 1 /\ type[1] \in PRIMITIVE_TYPES

COLLECTION_TYPES == {"set", "dictionary", "list"}

TYPE_MAPPINGS == PRIMITIVE_TYPES \cup COLLECTION_TYPES \cup {"object"}

InTypeMappings(type) == Len(type) = 1 /\ type[1] \in TYPE_MAPPINGS

removeUndefinedValues(obj) == obj.defined

Obj(fields) == [kind |-> "object", defined |-> fields, undefined |-> {}]

StringDecl(s) == [kind |-> "string", str |-> s]

(* !item.objectType: undefined and the empty string are falsy *)
FalsyObjectType(item) == "objectType" \notin DOMAIN item \/ item.objectType = << >>

(* !!item.optional with an absent optional taken as true *)
TruthyOptional_AbsentIsTrue(item) == "optional" \notin DOMAIN item \/ item.optional

(* !!item.optional *)
TruthyOptional(item) == "optional" \in DOMAIN item /\ item.optional

(* { type, objectType: item.type === "object" ? item.objectType : item.type, optional };
   an objectType of undefined (the item {type: "object"}) is an absent key here *)
CollectionOf(type, item, optional) ==
    IF item.type = Str("object")
    THEN IF "objectType" \in DOMAIN item
         THEN [type |-> Str(type), objectType |-> item.objectType, optional |-> optional]
         ELSE [type |-> Str(type), optional |-> optional]
    ELSE [type |-> Str(type), objectType |-> item.type, optional |-> optional]

RECURSIVE normalizePropertyType(_, _)
normalizePropertyType(type, allowObjectType) ==
    IF EndsWith(type, "[]") THEN
        IF ~allowObjectType THEN Throw("Expected no 'objectType' in property schema, when using '[]' shorthand")
        ELSE LET r == normalizePropertyType(DropSuffix(type), TRUE)
             IN  IF ~r.ok THEN r
                 ELSE LET item == r.val
                      IN  IF ~(item.type = Str("object") \/ FalsyObjectType(item))
                          THEN Throw("Unexpected nested object type")
                          ELSE Return(CollectionOf("list", item,
                                         IF item.type = Str("object") THEN FALSE
                                         ELSE TruthyOptional(item)))
    ELSE IF EndsWith(type, "<>") THEN
        IF ~allowObjectType THEN Throw("Expected no 'objectType' in property schema, when using '<>' shorthand")
        ELSE LET itemType == DropSuffix(type)
                 r == IF itemType # << >> THEN normalizePropertyType(itemType, TRUE)
                      ELSE Return([type |-> Str("mixed")])
             IN  IF ~r.ok THEN r
                 ELSE LET item == r.val
                      IN  Return(CollectionOf("set", item,
                                    IF item.type = Str("object") THEN TRUE
                                    ELSE TruthyOptional(item)))
    ELSE IF EndsWith(type, "{}") THEN
        IF ~allowObjectType THEN Throw("Expected no 'objectType' in property schema, when using '{}' shorthand")
        ELSE LET itemType == DropSuffix(type)
                 r == IF itemType # << >> THEN normalizePropertyType(itemType, TRUE)
                      ELSE Return([type |-> Str("mixed"), optional |-> TRUE])
             IN  IF ~r.ok THEN r
                 ELSE LET item == r.val
                      IN  Return(CollectionOf("dictionary", item,
                                    IF item.type = Str("object") THEN TRUE
                                    ELSE TruthyOptional(item)))
    ELSE IF EndsWith(type, "?") THEN
        Return([optional |-> TRUE, type |-> DropSuffix(type)])
    ELSE IF InTypeMappings(type) THEN
        IF type = Str("dictionary") THEN Return([type |-> type, objectType |-> Str("mixed"), optional |-> TRUE])
        ELSE IF type = Str("set") THEN Return([type |-> type, objectType |-> Str("mixed"), optional |-> TRUE])
        ELSE IF type = Str("mixed") THEN Return([type |-> type, optional |-> TRUE])
        ELSE Return([type |-> type])
    ELSE Return([type |-> Str("object"), objectType |-> type, optional |-> TRUE])

(* The mixed-must-be-optional assertion of normalizePropertySchema *)
MixedAssertionFails(mergedSchema) ==
    /\ \/ mergedSchema.type = Str("mixed")
       \/ ("objectType" \in DOMAIN mergedSchema /\ mergedSchema.objectType = Str("mixed"))
    /\ "optional" \in DOMAIN mergedSchema
    /\ mergedSchema.optional = FALSE

(* The merge with the fields derived from the type put on top of the caller's *)
MergeSchemas_TypeWins(propertySchemaFromType, rest) ==
    Spread(removeUndefinedValues(rest), removeUndefinedValues(Obj(propertySchemaFromType)))

(* { ...removeUndefinedValues(propertySchemaFromType), ...removeUndefinedValues(rest) } *)
MergeSchemas(propertySchemaFromType, rest) ==
    Spread(removeUndefinedValues(Obj(propertySchemaFromType)), removeUndefinedValues(rest))

PropertyDefaults(name) == [indexed |-> FALSE, optional |-> FALSE, mapTo |-> name]

RECURSIVE normalizePropertySchema(_, _)
normalizePropertySchema(name, schema) ==
    IF schema.kind = "string" THEN
        LET parsed == normalizePropertyType(schema.str, TRUE)
        IN  IF ~parsed.ok THEN parsed
            ELSE normalizePropertySchema(name, Obj(parsed.val))
    ELSE
        IF "type" \notin DOMAIN schema.defined THEN Throw("TypeError")
        ELSE
        LET type == schema.defined.type
            rest == [kind |-> "object",
                     defined |-> Without(schema.defined, "type"),
                     undefined |-> schema.undefined \ {"type"}]
            propertySchemaFromType ==
                normalizePropertyType(type, "objectType" \notin DOMAIN rest.defined)
        IN  IF ~propertySchemaFromType.ok THEN propertySchemaFromType
            ELSE LET mergedSchema == MergeSchemas(propertySchemaFromType.val, rest)
                 IN  IF MixedAssertionFails(mergedSchema)
                     THEN Throw("Mixed values should be declared as optional")
                     ELSE Return(Spread(Spread(PropertyDefaults(name), mergedSchema),
                                        [name |-> name]))


(* PRIMITIVE_TYPES.has(objectType), where objectType may be undefined *)
isPrimitiveObjectType(p) == "objectType" \in DOMAIN p /\ isPrimitive(p.objectType)

(* validateCanonicalPropertySchema without the empty-objectType check *)
validateCanonicalPropertySchema_NoEmptyCheck(objectSchemaName, p) ==
    IF p.type = Str("list") /\ "objectType" \in DOMAIN p /\ p.objectType = Str("list")
    THEN Throw("List property cannot have list elements")
    ELSE IF p.type = Str("list") /\ ~isPrimitiveObjectType(p) /\ p.optional
    THEN Throw("List property of non-primitive elements cannot be optional")
    ELSE Return("undefined")

validateCanonicalPropertySchema(objectSchemaName, p) ==
    IF p.type = Str("list") /\ "objectType" \in DOMAIN p /\ p.objectType = Str("list")
    THEN Throw("List property cannot have list elements")
    ELSE IF p.type = Str("list") /\ ~isPrimitiveObjectType(p) /\ p.optional
    THEN Throw("List property of non-primitive elements cannot be optional")
    ELSE IF "objectType" \in DOMAIN p /\ p.objectType = << >>
    THEN Throw("Property cannot have an empty object type")
    ELSE Return("undefined")

(* NormalizeEntry without the primary-key rule *)
NormalizeEntry_NoPrimaryKeyIndex(arg, name, property) ==
    LET r == normalizePropertySchema(name, property)
    IN  IF ~r.ok THEN r
        ELSE LET v == validateCanonicalPropertySchema(arg.name, r.val)
             IN  IF ~v.ok THEN v ELSE Return([name |-> name, schema |-> r.val])

(* The body of the callback normalizeObjectSchema maps over the entries *)
NormalizeEntry(arg, name, property) ==
    LET r == normalizePropertySchema(name, property)
    IN  IF ~r.ok THEN r
        ELSE LET canonicalPropertySchema ==
                     IF "primaryKey" \in DOMAIN arg /\ name = arg.primaryKey
                     THEN [r.val EXCEPT !.indexed = TRUE]
                     ELSE r.val
                 v == validateCanonicalPropertySchema(arg.name, canonicalPropertySchema)
             IN  IF ~v.ok THEN v ELSE Return([name |-> name, schema |-> canonicalPropertySchema])

(* Object.entries(arg.properties).map(...): entries in order, the first throw ends the call *)
RECURSIVE MapEntries(_, _, _)
MapEntries(arg, entries, done) ==
    IF entries = << >> THEN Return(done)
    ELSE LET e == NormalizeEntry(arg, Head(entries).name, Head(entries).decl)
         IN  IF ~e.ok THEN e
             ELSE MapEntries(arg, Tail(entries), Append(done, e.val))

(* arg.properties.map(({ name, ...rest }) => [name, rest]) *)
ArrayToEntries(properties) ==
    [i \in 1..Len(properties) |->
        [name |-> properties[i].defined.name,
         decl |-> [kind |-> "object",
                   defined |-> Without(properties[i].defined, "name"),
                   undefined |-> properties[i].undefined \ {"name"}]]]

OrFalse(arg, key) == IF key \in DOMAIN arg THEN arg[key] ELSE FALSE

RECURSIVE normalizeObjectSchema(_, _)
normalizeObjectSchema(arg, buildFlags) ==
    IF arg.form = "class" THEN
        IF ~arg.extendsRealmObject THEN Throw("Expected class extending Realm.Object")
        ELSE IF "schema" \notin DOMAIN arg THEN Throw("Expected 'schema static' to be an object")
        ELSE LET schema == normalizeObjectSchema(arg.schema, buildFlags)
             IN  IF ~schema.ok THEN schema
                 ELSE Return([schema.val EXCEPT !.constructor = "class"])
    ELSE IF arg.propertiesIsArray THEN
        IF buildFlags.ALLOW_VALUES_ARRAYS
        THEN normalizeObjectSchema(
                 [arg EXCEPT !.properties = ArrayToEntries(arg.properties),
                             !.propertiesIsArray = FALSE], buildFlags)
        ELSE Throw("Array of properties are no longer supported")
    ELSE LET properties == MapEntries(arg, arg.properties, << >>)
         IN  IF ~properties.ok THEN properties
             ELSE Return(Spread(
                     [constructor |-> "undefined",
                      name |-> arg.name,
                      asymmetric |-> OrFalse(arg, "asymmetric"),
                      embedded |-> OrFalse(arg, "embedded"),
                      properties |-> properties.val],
                     IF "primaryKey" \in DOMAIN arg
                     THEN [primaryKey |-> arg.primaryKey] ELSE << >>))

-----------------------------------------------------------------------------
(* The declarations the pipeline is called with *)

PropNames == {"id", "age", "friends"}

ObjectTypeChoices == {<< >>, Str("mixed"), Str("int"), Str("Person"), Str("list")}

(* Object declarations that state type, and maybe objectType and optional *)
TypedDecls ==
    {Obj(Spread(Spread([type |-> t], ot), op)) :
        t \in TypeStrings(MaxObjSuffixes),
        ot \in {<< >>} \cup {[objectType |-> o] : o \in ObjectTypeChoices},
        op \in {<< >>, [optional |-> TRUE], [optional |-> FALSE]}}
    \cup
    {[kind |-> "object", defined |-> Spread([type |-> t], ot), undefined |-> {"optional"}] :
        t \in TypeStrings(MaxObjSuffixes),
        ot \in {<< >>} \cup {[objectType |-> o] : o \in ObjectTypeChoices}}

(* Object declarations that state indexed, mapTo or name *)
AnnotatedDecls ==
    {[kind |-> "object",
      defined |-> Spread(Spread(Spread(Spread([type |-> t], ix), mt), nm), op),
      undefined |-> {}] :
        t \in {Str("int"), Str("string"), Str("Person"), Str("mixed")},
        ix \in {<< >>, [indexed |-> TRUE], [indexed |-> FALSE]},
        mt \in {<< >>, [mapTo |-> "other"]},
        nm \in {<< >>, [name |-> "other"]},
        op \in {<< >>, [optional |-> TRUE]}}
    \cup
    {[kind |-> "object", defined |-> Spread([type |-> t], op), undefined |-> u] :
        t \in {Str("int"), Str("Person")},
        op \in {<< >>, [optional |-> TRUE]},
        u \in {{"indexed"}, {"mapTo"}, {"objectType"}, {"indexed", "mapTo"}}}

StringDecls == {StringDecl(s) : s \in TypeStrings(MaxSuffixes)}

PropertyDecls == StringDecls \cup TypedDecls \cup AnnotatedDecls

(* The declarations object schemas are built from *)
SchemaDecls ==
    {StringDecl(<<"int">>), StringDecl(<<"string", "?">>), StringDecl(<<"Person", "[]">>),
     StringDecl(<<"Person", "?", "[]">>), StringDecl(<<"<>">>), StringDecl(<<"int", "[]", "<>">>),
     Obj([type |-> Str("int")]), Obj([type |-> Str("int"), indexed |-> FALSE]),
     Obj([type |-> Str("string"), indexed |-> TRUE]),
     Obj([type |-> Str("list"), objectType |-> Str("mixed")]),
     Obj([type |-> Str("list"), objectType |-> Str("Person"), optional |-> TRUE]),
     Obj([type |-> Str("list"), objectType |-> Str("list")]),
     Obj([type |-> Str("int"), objectType |-> << >>]),
     Obj([type |-> <<"Person", "?">>])}

(* Canonical property schemas, as validateCanonicalPropertySchema receives them *)
CanonicalProperties ==
    {Spread([name |-> "id", type |-> Str(t), optional |-> op, indexed |-> FALSE,
             mapTo |-> "id"], ot) :
        t \in {"list", "set", "int", "object"},
        op \in BOOLEAN,
        ot \in {<< >>} \cup {[objectType |-> o] : o \in ObjectTypeChoices}}

RECURSIVE EntrySeqs(_)
EntrySeqs(n) ==
    IF n = 0 THEN {<< >>}
    ELSE LET shorter == EntrySeqs(n - 1)
         IN  shorter \cup
             {Append(es, [name |-> nm, decl |-> d]) :
                 es \in {x \in shorter : Len(x) = n - 1},
                 nm \in PropNames, d \in SchemaDecls}

DistinctNames(entries) ==
    \A i, j \in 1..Len(entries) : entries[i].name = entries[j].name => i = j

PlainSchemaArgs ==
    {Spread([form |-> "object", name |-> "Person", properties |-> es,
             propertiesIsArray |-> FALSE], pk) :
        es \in {x \in EntrySeqs(MaxProps) : DistinctNames(x)},
        pk \in {<< >>} \cup {[primaryKey |-> nm] : nm \in PropNames}}

(* Object schemas that come as a class, state asymmetric or embedded, or give
   their properties as an array *)
SmallSchemas ==
    {[form |-> "object", name |-> "Person", propertiesIsArray |-> FALSE,
      properties |-> <<[name |-> "id", decl |-> d]>>, primaryKey |-> "id"] :
        d \in {StringDecl(<<"int">>), StringDecl(<<"<>">>), Obj([type |-> <<"Person", "?">>])}}

OtherSchemaArgs ==
    {[form |-> "class", extendsRealmObject |-> e, schema |-> s] :
        e \in BOOLEAN, s \in SmallSchemas}
    \cup {[form |-> "class", extendsRealmObject |-> TRUE]}
    \cup {Spread(s, x) : s \in SmallSchemas,
                         x \in {[asymmetric |-> TRUE], [embedded |-> TRUE],
                                [asymmetric |-> FALSE, embedded |-> TRUE]}}
    \cup {[form |-> "object", name |-> "Person", propertiesIsArray |-> TRUE,
           properties |-> <<Obj([name |-> "id", type |-> t]), Obj([name |-> "age", type |-> Str("int")])>>,
           primaryKey |-> "id"] :
            t \in {Str("int"), <<"Person", "?">>, Str("mixed")}}

(* { name: "Person", properties: { name: "string", age: "int?", friends: "Person[]" } } *)
PersonSchema ==
    [form |-> "object", name |-> "Person", propertiesIsArray |-> FALSE,
     properties |-> <<[name |-> "name", decl |-> StringDecl(<<"string">>)],
                      [name |-> "age", decl |-> StringDecl(<<"int", "?">>)],
                      [name |-> "friends", decl |-> StringDecl(<<"Person", "[]">>)]>>]

ObjectSchemaArgs == PlainSchemaArgs \cup OtherSchemaArgs \cup {PersonSchema}

NoCall == [fn |-> "none"]

NoOp == [op |-> "none"]

-----------------------------------------------------------------------------
(* The storage engine's list (binding.List) and the marshalling helpers, as the
   adapter uses them.  A run is the engine state while one adapter operation
   executes: the list, the engine calls made so far, the error thrown (if any)
   and the values read. *)

HostValues == {"a", "b"}

toBinding(value) == <<"binding", value>>

fromBinding(value) == value[2]

StartRun(items, tx) == [items |-> items, tx |-> tx, log |-> << >>, err |-> "none", got |-> << >>]

EngineCall(run, op, index, valid, items, got) ==
    IF run.err # "none" THEN run
    ELSE IF valid
    THEN [run EXCEPT !.log = Append(@, [op |-> op, index |-> index]), !.items = items, !.got = got]
    ELSE [run EXCEPT !.log = Append(@, [op |-> op, index |-> index]), !.err = "EngineError"]

InsertAt(items, index, value) ==
    SubSeq(items, 1, index) \o <<value>> \o SubSeq(items, index + 1, Len(items))

RemoveAt(items, index) ==
    SubSeq(items, 1, index) \o SubSeq(items, index + 2, Len(items))

(* internal.getAny(index): the value read is appended to run.got *)
getAny(run, index) ==
    EngineCall(run, "getAny", index, index >= 0 /\ index < Len(run.items),
               run.items, IF index >= 0 /\ index < Len(run.items)
                          THEN Append(run.got, run.items[index + 1]) ELSE run.got)

(* internal.remove(index) *)
remove(run, index) ==
    EngineCall(run, "remove", index, run.tx /\ index >= 0 /\ index < Len(run.items),
               RemoveAt(run.items, index), run.got)

(* internal.insertAny(index, value) *)
insertAny(run, index, value) ==
    EngineCall(run, "insertAny", index, run.tx /\ index >= 0 /\ index <= Len(run.items),
               InsertAt(run.items, index, value), run.got)

(* internal.setAny(index, value) *)
setAny(run, index, value) ==
    EngineCall(run, "setAny", index, run.tx /\ index >= 0 /\ index < Len(run.items),
               IF index >= 0 /\ index < Len(run.items)
               THEN [run.items EXCEPT ![index + 1] = value] ELSE run.items, run.got)

(* toBinding(item, () => [internal.insertEmbedded(index), true]): the engine
   inserts a fresh embedded object at index and toBinding fills it from item *)
insertEmbedded(run, index, item) ==
    EngineCall(run, "insertEmbedded", index, run.tx /\ index >= 0 /\ index <= Len(run.items),
               InsertAt(run.items, index, toBinding(item)), run.got)

-----------------------------------------------------------------------------
(* List.js *)

NotInTransaction(run) == [run EXCEPT !.err = "TransactionStateError"]

Omitted == [given |-> FALSE]

Count(n) == [given |-> TRUE, n |-> n]

Min(a, b) == IF a < b THEN a ELSE b

(* for (let i = start; i < end; i++) result.push(fromBinding(internal.getAny(i))) *)
RECURSIVE ReadRange(_, _, _)
ReadRange(run, i, end) ==
    IF i < end /\ run.err = "none" THEN ReadRange(getAny(run, i), i + 1, end) ELSE run

(* RemoveRange walking upwards: for (let i = start; i < end; i++) internal.remove(i) *)
RECURSIVE RemoveUpwards(_, _, _)
RemoveUpwards(run, i, last) ==
    IF i <= last /\ run.err = "none" THEN RemoveUpwards(remove(run, i), i + 1, last) ELSE run

RemoveRange_Upwards(run, i, start) == RemoveUpwards(run, start, i)

(* for (let i = end - 1; i >= start; i--) internal.remove(i) *)
RECURSIVE RemoveRange(_, _, _)
RemoveRange(run, i, start) ==
    IF i >= start /\ run.err = "none" THEN RemoveRange(remove(run, i), i - 1, start) ELSE run

(* for (const [offset, item] of items.entries()) { insert item at start + offset } *)
RECURSIVE InsertItems(_, _, _, _)
InsertItems(run, index, items, embedded) ==
    IF items = << >> \/ run.err # "none" THEN run
    ELSE InsertItems(IF embedded THEN insertEmbedded(run, index, Head(items))
                     ELSE insertAny(run, index, toBinding(Head(items))),
                     index + 1, Tail(items), embedded)

Values(got) == [i \in 1..Len(got) |-> fromBinding(got[i])]

(* Each operation yields the finished run and the value returned *)
Outcome(run, ret) == [run |-> run, ret |-> IF run.err = "none" THEN ret ELSE << >>]

SpliceStart(size, start) ==
    LET counted == IF start < 0 THEN size + start ELSE start
    IN  IF counted > size THEN size ELSE counted

SpliceEnd(size, start, deleteCount) ==
    IF deleteCount.given THEN Min(start + deleteCount.n, size) ELSE size

List_splice(items, tx, embedded, start, deleteCount, newItems) ==
    IF ~tx THEN Outcome(NotInTransaction(StartRun(items, tx)), << >>)
    ELSE LET size == Len(items)
             from == SpliceStart(size, start)
             end == SpliceEnd(size, from, deleteCount)
             read == ReadRange(StartRun(items, tx), from, end)
             removed == RemoveRange(read, end - 1, from)
             inserted == InsertItems(removed, from, newItems, embedded)
         IN  Outcome(inserted, Values(inserted.got))

List_set(items, tx, embedded, index, value) ==
    IF ~tx THEN Outcome(NotInTransaction(StartRun(items, tx)), << >>)
    ELSE LET bound == IF embedded THEN insertEmbedded(StartRun(items, tx), index, value)
                      ELSE StartRun(items, tx)
         IN  Outcome(setAny(bound, index, toBinding(value)), << >>)

List_pop(items, tx) ==
    IF ~tx THEN Outcome(NotInTransaction(StartRun(items, tx)), << >>)
    ELSE LET lastIndex == Len(items) - 1
         IN  IF lastIndex >= 0
             THEN LET run == remove(getAny(StartRun(items, tx), lastIndex), lastIndex)
                  IN  Outcome(run, Values(run.got))
             ELSE Outcome(StartRun(items, tx), << >>)

List_push(items, tx, embedded, newItems) ==
    IF ~tx THEN Outcome(NotInTransaction(StartRun(items, tx)), << >>)
    ELSE LET run == InsertItems(StartRun(items, tx), Len(items), newItems, embedded)
         IN  Outcome(run, <<Len(run.items)>>)

List_shift(items, tx) ==
    IF ~tx THEN Outcome(NotInTransaction(StartRun(items, tx)), << >>)
    ELSE IF Len(items) > 0
         THEN LET run == remove(getAny(StartRun(items, tx), 0), 0)
              IN  Outcome(run, Values(run.got))
         ELSE Outcome(StartRun(items, tx), << >>)

List_unshift(items, tx, embedded, newItems) ==
    IF ~tx THEN Outcome(NotInTransaction(StartRun(items, tx)), << >>)
    ELSE LET run == InsertItems(StartRun(items, tx), 0, newItems, embedded)
         IN  Outcome(run, <<Len(run.items)>>)

-----------------------------------------------------------------------------
(* Initial states: no call made yet, an empty list and dictionary outside a
   write transaction, the notification wrapper registered by the constructor *)

InitSchema ==
    /\ call = NoCall
    /\ flags \in {[ALLOW_VALUES_ARRAYS |-> b] : b \in BOOLEAN}
    /\ list = << >>
    /\ isEmbedded = FALSE
    /\ listCall = NoOp
    /\ dict = << >>
    /\ gens = << >>
    /\ dictCall = NoOp
    /\ inTransaction = FALSE
    /\ registered = 0
    /\ immediates = << >>
    /\ deliveries = << >>
    /\ uncaught = << >>

-----------------------------------------------------------------------------
(* The schema pipeline: one action per function.  The functions are pure, so a
   behaviour is one call: its arguments and what it returned. *)

CallNormalizePropertyType ==
    /\ call = NoCall
    /\ \E type \in TypeStrings(MaxSuffixes), allowObjectType \in BOOLEAN :
        /\ call' = [fn |-> "normalizePropertyType", type |-> type,
                    allowObjectType |-> allowObjectType,
                    ret |-> normalizePropertyType(type, allowObjectType)]
        /\ UNCHANGED <<flags, listVars, dictVars, notifyVars, inTransaction>>

CallNormalizePropertySchema ==
    /\ call = NoCall
    /\ \E name \in PropNames, schema \in PropertyDecls :
        /\ call' = [fn |-> "normalizePropertySchema", name |-> name, schema |-> schema,
                    ret |-> normalizePropertySchema(name, schema)]
        /\ UNCHANGED <<flags, listVars, dictVars, notifyVars, inTransaction>>

CallNormalizeObjectSchema ==
    /\ call = NoCall
    /\ \E arg \in ObjectSchemaArgs :
        /\ call' = [fn |-> "normalizeObjectSchema", arg |-> arg,
                    ret |-> normalizeObjectSchema(arg, flags)]
        /\ UNCHANGED <<flags, listVars, dictVars, notifyVars, inTransaction>>

CallValidateCanonicalPropertySchema ==
    /\ call = NoCall
    /\ \E p \in CanonicalProperties :
        /\ call' = [fn |-> "validateCanonicalPropertySchema", arg |-> p,
                    ret |-> validateCanonicalPropertySchema("Person", p)]
        /\ UNCHANGED <<flags, listVars, dictVars, notifyVars, inTransaction>>

SchemaNext ==
    \/ CallNormalizePropertyType
    \/ CallNormalizePropertySchema
    \/ CallNormalizeObjectSchema
    \/ CallValidateCanonicalPropertySchema

SpecSchema == InitSchema /\ [][SchemaNext]_vars

-----------------------------------------------------------------------------
(* The List adapter: one action per method.  A call is recorded with the list
   it found, the engine calls it made and what it returned or threw, until
   the caller takes the result. *)

RECURSIVE ItemSeqs(_)
ItemSeqs(n) ==
    IF n = 0 THEN {<< >>}
    ELSE LET shorter == ItemSeqs(n - 1)
         IN  shorter \cup {Append(q, v) : q \in shorter, v \in HostValues}

ListCalled(op, args, o) ==
    [op |-> op, args |-> args, before |-> list, tx |-> inTransaction,
     log |-> o.run.log, err |-> o.run.err, ret |-> o.ret]

Idle == listCall = NoOp /\ dictCall = NoOp

InitList ==
    /\ call = NoCall
    /\ flags = [ALLOW_VALUES_ARRAYS |-> FALSE]
    /\ list = << >>
    /\ isEmbedded \in BOOLEAN
    /\ listCall = NoOp
    /\ dict = << >>
    /\ gens = << >>
    /\ dictCall = NoOp
    /\ inTransaction = FALSE
    /\ registered = 0
    /\ immediates = << >>
    /\ deliveries = << >>
    /\ uncaught = << >>

BeginWrite ==
    /\ Idle /\ ~inTransaction
    /\ inTransaction' = TRUE
    /\ UNCHANGED <<schemaVars, listVars, dictVars, notifyVars>>

CommitWrite ==
    /\ Idle /\ inTransaction
    /\ inTransaction' = FALSE
    /\ UNCHANGED <<schemaVars, listVars, dictVars, notifyVars>>

ListSplice ==
    /\ Idle
    /\ \E start \in -(MaxLen + 1)..(MaxLen + 1),
          deleteCount \in {Omitted} \cup {Count(n) : n \in -1..(MaxLen + 1)},
          items \in ItemSeqs(MaxItems) :
        /\ ~deleteCount.given => items = << >>
        /\ LET o == List_splice(list, inTransaction, isEmbedded, start, deleteCount, items)
           IN  /\ Len(o.run.items) <= MaxLen
               /\ list' = o.run.items
               /\ listCall' = ListCalled("splice",
                      [start |-> start, deleteCount |-> deleteCount, items |-> items], o)
    /\ UNCHANGED <<schemaVars, isEmbedded, dictVars, notifyVars, inTransaction>>

ListSet ==
    /\ Idle
    /\ \E index \in -1..MaxLen, value \in HostValues :
        /\ isEmbedded => Len(list) < MaxLen
        /\ LET o == List_set(list, inTransaction, isEmbedded, index, value)
           IN  /\ list' = o.run.items
               /\ listCall' = ListCalled("set", [index |-> index, value |-> value], o)
    /\ UNCHANGED <<schemaVars, isEmbedded, dictVars, notifyVars, inTransaction>>

ListPop ==
    /\ Idle
    /\ LET o == List_pop(list, inTransaction)
       IN  /\ list' = o.run.items
           /\ listCall' = ListCalled("pop", << >>, o)
    /\ UNCHANGED <<schemaVars, isEmbedded, dictVars, notifyVars, inTransaction>>

ListPush ==
    /\ Idle
    /\ \E items \in ItemSeqs(MaxItems) :
        /\ Len(list) + Len(items) <= MaxLen
        /\ LET o == List_push(list, inTransaction, isEmbedded, items)
           IN  /\ list' = o.run.items
               /\ listCall' = ListCalled("push", [items |-> items], o)
    /\ UNCHANGED <<schemaVars, isEmbedded, dictVars, notifyVars, inTransaction>>

ListShift ==
    /\ Idle
    /\ LET o == List_shift(list, inTransaction)
       IN  /\ list' = o.run.items
           /\ listCall' = ListCalled("shift", << >>, o)
    /\ UNCHANGED <<schemaVars, isEmbedded, dictVars, notifyVars, inTransaction>>

ListUnshift ==
    /\ Idle
    /\ \E items \in ItemSeqs(MaxItems) :
        /\ Len(list) + Len(items) <= MaxLen
        /\ LET o == List_unshift(list, inTransaction, isEmbedded, items)
           IN  /\ list' = o.run.items
               /\ listCall' = ListCalled("unshift", [items |-> items], o)
    /\ UNCHANGED <<schemaVars, isEmbedded, dictVars, notifyVars, inTransaction>>

(* The caller takes the result of the call *)
ListReturn ==
    /\ listCall # NoOp
    /\ listCall' = NoOp
    /\ UNCHANGED <<schemaVars, list, isEmbedded, dictVars, notifyVars, inTransaction>>

ListNext ==
    \/ BeginWrite
    \/ CommitWrite
    \/ ListSplice
    \/ ListSet
    \/ ListPop
    \/ ListPush
    \/ ListShift
    \/ ListUnshift
    \/ ListReturn

SpecList == InitList /\ [][ListNext]_vars

-----------------------------------------------------------------------------
(* The storage engine's dictionary (binding.Dictionary): <<key, value>> pairs in
   the engine's key order *)

Keys == {"k1", "k2"}

KeysOf(pairs) == [i \in 1..Len(pairs) |-> pairs[i][1]]

ValuesOf(pairs) == [i \in 1..Len(pairs) |-> pairs[i][2]]

HasKey(pairs, key) == \E i \in 1..Len(pairs) : pairs[i][1] = key

RECURSIVE EraseKey(_, _)
EraseKey(pairs, key) ==
    IF pairs = << >> THEN << >>
    ELSE IF Head(pairs)[1] = key THEN EraseKey(Tail(pairs), key)
    ELSE <<Head(pairs)>> \o EraseKey(Tail(pairs), key)

PutKey(pairs, key, value) ==
    IF HasKey(pairs, key)
    THEN [i \in 1..Len(pairs) |-> IF pairs[i][1] = key THEN <<key, value>> ELSE pairs[i]]
    ELSE Append(pairs, <<key, value>>)

(* internal.insertAny(key, value): the engine refuses outside a write transaction *)
dictInsertAny(run, key, value) ==
    EngineCall(run, "insertAny", key, run.tx, PutKey(run.items, key, value), run.got)

(* internal.tryErase(key): an absent key is not an error *)
dictTryErase(run, key) ==
    EngineCall(run, "tryErase", key, run.tx, EraseKey(run.items, key), run.got)

(* internal.tryGetAny(key): undefined (nothing read) for an absent key *)
dictTryGetAny(run, key) ==
    EngineCall(run, "tryGetAny", key, TRUE, run.items,
               IF HasKey(run.items, key)
               THEN <<(CHOOSE pr \in {run.items[i] : i \in 1..Len(run.items)} : pr[1] = key)[2]>>
               ELSE << >>)

-----------------------------------------------------------------------------
(* Dictionary.js *)

(* for (const [key, value] of Object.entries(element)) internal.insertAny(key, toBinding(value)) *)
RECURSIVE InsertEntries(_, _)
InsertEntries(run, entries) ==
    IF entries = << >> \/ run.err # "none" THEN run
    ELSE InsertEntries(dictInsertAny(run, Head(entries)[1], toBinding(Head(entries)[2])),
                       Tail(entries))

(* EraseKeys ending at the first key the dictionary does not hold *)
RECURSIVE EraseKeys_StopAtAbsent(_, _)
EraseKeys_StopAtAbsent(run, keys) ==
    IF keys = << >> \/ run.err # "none" \/ ~HasKey(run.items, Head(keys)) THEN run
    ELSE EraseKeys_StopAtAbsent(dictTryErase(run, Head(keys)), Tail(keys))

(* for (const k of keys) internal.tryErase(k) *)
RECURSIVE EraseKeys(_, _)
EraseKeys(run, keys) ==
    IF keys = << >> \/ run.err # "none" THEN run
    ELSE EraseKeys(dictTryErase(run, Head(keys)), Tail(keys))

Dictionary_set(pairs, tx, element) ==
    IF ~tx THEN Outcome(NotInTransaction(StartRun(pairs, tx)), << >>)
    ELSE Outcome(InsertEntries(StartRun(pairs, tx), element), << >>)

Dictionary_remove(pairs, tx, key) ==
    IF ~tx THEN Outcome(NotInTransaction(StartRun(pairs, tx)), << >>)
    ELSE LET keys == IF key.kind = "string" THEN <<key.key>> ELSE key.keys
         IN  Outcome(EraseKeys(StartRun(pairs, tx), keys), << >>)

(* PROXY_HANDLER.set(target, prop, value) *)
Proxy_set(pairs, tx, prop, value) ==
    IF prop.kind = "string"
    THEN Outcome(dictInsertAny(StartRun(pairs, tx), prop.key, toBinding(value)), <<TRUE>>)
    ELSE Outcome(StartRun(pairs, tx), <<FALSE>>)

(* PROXY_HANDLER.deleteProperty(target, prop) *)
Proxy_deleteProperty(pairs, tx, prop) ==
    IF prop.kind = "string"
    THEN Outcome(dictTryErase(StartRun(pairs, tx), prop.key), <<TRUE>>)
    ELSE Outcome(StartRun(pairs, tx), <<FALSE>>)

(* PROXY_HANDLER.get(target, prop, receiver), for a prop the target does not define *)
Proxy_get(pairs, tx, prop) ==
    IF prop.kind = "string"
    THEN LET run == dictTryGetAny(StartRun(pairs, tx), prop.key)
         IN  Outcome(run, Values(run.got))
    ELSE Outcome(StartRun(pairs, tx), << >>)

(* The generator object a call of keys(), values() or entries() returns: the
   body of a generator function does not run before the first next() *)
NewGenerator(kind, pairs) ==
    [kind |-> kind, atCall |-> pairs, started |-> FALSE, done |-> FALSE,
     keys |-> << >>, values |-> << >>, size |-> 0, yielded |-> << >>]

(* The statements before the loop: the snapshots and their size *)
GeneratorStart(g, pairs) ==
    [g EXCEPT !.started = TRUE,
              !.keys = IF g.kind \in {"keys", "entries"} THEN KeysOf(pairs) ELSE << >>,
              !.values = IF g.kind \in {"values", "entries"} THEN ValuesOf(pairs) ELSE << >>,
              !.size = Len(pairs)]

GeneratorYield(g, i) ==
    IF g.kind = "keys" THEN g.keys[i]
    ELSE IF g.kind = "values" THEN fromBinding(g.values[i])
    ELSE <<g.keys[i], fromBinding(g.values[i])>>

(* generator.next(): run to the next yield or to the end *)
GeneratorNext(g, pairs) ==
    LET running == IF g.started THEN g ELSE GeneratorStart(g, pairs)
        i == Len(running.yielded)
    IN  IF i < running.size
        THEN [running EXCEPT !.yielded = Append(@, GeneratorYield(running, i + 1))]
        ELSE [running EXCEPT !.done = TRUE]

-----------------------------------------------------------------------------
(* The Dictionary adapter: one action per method and proxy trap *)

(* Object.entries(element) of the objects passed to set: distinct keys *)
Elements ==
    {<< >>}
    \cup {<<<<k, v>>>> : k \in Keys, v \in HostValues}
    \cup {e \in {<<<<k1, v1>>, <<k2, v2>>>> :
                     k1 \in Keys, k2 \in Keys, v1 \in HostValues, v2 \in HostValues} :
            e[1][1] # e[2][1]}

RemoveArgs ==
    {[kind |-> "string", key |-> k] : k \in Keys}
    \cup {[kind |-> "array", keys |-> ks] :
            ks \in {<< >>} \cup {<<k>> : k \in Keys} \cup {<<k1, k2>> : k1 \in Keys, k2 \in Keys}}

Props == {[kind |-> "string", key |-> k] : k \in Keys} \cup {[kind |-> "symbol"]}

DictCalled(op, args, o) ==
    [op |-> op, args |-> args, before |-> dict, tx |-> inTransaction,
     log |-> o.run.log, err |-> o.run.err, ret |-> o.ret]

InitDict ==
    /\ call = NoCall
    /\ flags = [ALLOW_VALUES_ARRAYS |-> FALSE]
    /\ list = << >>
    /\ isEmbedded = FALSE
    /\ listCall = NoOp
    /\ dict = << >>
    /\ gens = << >>
    /\ dictCall = NoOp
    /\ inTransaction = FALSE
    /\ registered = 0
    /\ immediates = << >>
    /\ deliveries = << >>
    /\ uncaught = << >>

DictSet ==
    /\ Idle
    /\ \E element \in Elements :
        LET o == Dictionary_set(dict, inTransaction, element)
        IN  /\ dict' = o.run.items
            /\ dictCall' = DictCalled("set", [element |-> element], o)
    /\ UNCHANGED <<schemaVars, listVars, gens, notifyVars, inTransaction>>

DictRemove ==
    /\ Idle
    /\ \E key \in RemoveArgs :
        LET o == Dictionary_remove(dict, inTransaction, key)
        IN  /\ dict' = o.run.items
            /\ dictCall' = DictCalled("remove", [key |-> key], o)
    /\ UNCHANGED <<schemaVars, listVars, gens, notifyVars, inTransaction>>

ProxySet ==
    /\ Idle
    /\ \E prop \in Props, value \in HostValues :
        LET o == Proxy_set(dict, inTransaction, prop, value)
        IN  /\ dict' = o.run.items
            /\ dictCall' = DictCalled("proxy.set", [prop |-> prop, value |-> value], o)
    /\ UNCHANGED <<schemaVars, listVars, gens, notifyVars, inTransaction>>

ProxyDeleteProperty ==
    /\ Idle
    /\ \E prop \in Props :
        LET o == Proxy_deleteProperty(dict, inTransaction, prop)
        IN  /\ dict' = o.run.items
            /\ dictCall' = DictCalled("proxy.deleteProperty", [prop |-> prop], o)
    /\ UNCHANGED <<schemaVars, listVars, gens, notifyVars, inTransaction>>

ProxyGet ==
    /\ Idle
    /\ \E prop \in Props :
        LET o == Proxy_get(dict, inTransaction, prop)
        IN  /\ dict' = o.run.items
            /\ dictCall' = DictCalled("proxy.get", [prop |-> prop], o)
    /\ UNCHANGED <<schemaVars, listVars, gens, notifyVars, inTransaction>>

(* The caller takes the result of the call *)
DictReturn ==
    /\ dictCall # NoOp
    /\ dictCall' = NoOp
    /\ UNCHANGED <<schemaVars, listVars, dict, gens, notifyVars, inTransaction>>

DictNext ==
    \/ BeginWrite
    \/ CommitWrite
    \/ DictSet
    \/ DictRemove
    \/ ProxySet
    \/ ProxyDeleteProperty
    \/ ProxyGet
    \/ DictReturn

SpecDict == InitDict /\ [][DictNext]_vars

-----------------------------------------------------------------------------
(* Iteration: keys(), values() and entries() hand out generator objects, which
   the caller resumes at any later time, between other operations *)

DictKeys ==
    /\ Idle /\ Len(gens) < MaxGens
    /\ gens' = Append(gens, NewGenerator("keys", dict))
    /\ UNCHANGED <<schemaVars, listVars, dict, dictCall, notifyVars, inTransaction>>

DictValues ==
    /\ Idle /\ Len(gens) < MaxGens
    /\ gens' = Append(gens, NewGenerator("values", dict))
    /\ UNCHANGED <<schemaVars, listVars, dict, dictCall, notifyVars, inTransaction>>

DictEntries ==
    /\ Idle /\ Len(gens) < MaxGens
    /\ gens' = Append(gens, NewGenerator("entries", dict))
    /\ UNCHANGED <<schemaVars, listVars, dict, dictCall, notifyVars, inTransaction>>

GenNext ==
    /\ Idle
    /\ \E i \in 1..Len(gens) :
        /\ ~gens[i].done
        /\ gens' = [gens EXCEPT ![i] = GeneratorNext(gens[i], dict)]
    /\ UNCHANGED <<schemaVars, listVars, dict, dictCall, notifyVars, inTransaction>>

IterNext ==
    \/ BeginWrite
    \/ CommitWrite
    \/ DictSet
    \/ DictRemove
    \/ DictReturn
    \/ DictKeys
    \/ DictValues
    \/ DictEntries
    \/ GenNext

SpecIter == InitDict /\ [][IterNext]_vars

-----------------------------------------------------------------------------
(* Change notifications.  Each callback a user registers is wrapped; the engine
   calls the wrapper when it delivers a change set.  The user callback returns,
   throws, or never runs because a key of the change set fails assert.string,
   which throws inside the same try block. *)

CallbackBehaviours == {"returns", "throws", "assertFails"}

(* NotificationWrapper without the try/catch: the error leaves the wrapper *)
NotificationWrapper_NoCatch(behaviour, err) ==
    IF behaviour = "returns"
    THEN [outcome |-> "returned", scheduled |-> << >>]
    ELSE [outcome |-> "threw", scheduled |-> << >>]

(* The function handed to addKeyBasedNotificationCallback: try { callback(...) }
   catch (err) { setImmediate(() => { throw err; }) } *)
NotificationWrapper(behaviour, err) ==
    IF behaviour = "returns"
    THEN [outcome |-> "returned", scheduled |-> << >>]
    ELSE [outcome |-> "returned", scheduled |-> <<err>>]

(* A throw into the engine's delivery call aborts the engine *)
EngineAborted == \E i \in 1..Len(deliveries) : deliveries[i].outcome = "threw"

InitNotify ==
    /\ call = NoCall
    /\ flags = [ALLOW_VALUES_ARRAYS |-> FALSE]
    /\ list = << >>
    /\ isEmbedded = FALSE
    /\ listCall = NoOp
    /\ dict = << >>
    /\ gens = << >>
    /\ dictCall = NoOp
    /\ inTransaction = FALSE
    /\ registered = 0
    /\ immediates = << >>
    /\ deliveries = << >>
    /\ uncaught = << >>

AddListener ==
    /\ registered < MaxListeners
    /\ ~EngineAborted
    /\ registered' = registered + 1
    /\ UNCHANGED <<schemaVars, listVars, dictVars, inTransaction, immediates, deliveries, uncaught>>

(* The engine delivers a change set to one registered wrapper *)
EngineNotify ==
    /\ ~EngineAborted
    /\ Len(deliveries) < MaxDeliveries
    /\ \E listener \in 1..registered, behaviour \in CallbackBehaviours :
        LET err == Len(deliveries) + 1
            w == NotificationWrapper(behaviour, err)
        IN  /\ deliveries' = Append(deliveries,
                   [listener |-> listener, behaviour |-> behaviour, outcome |-> w.outcome])
            /\ immediates' = immediates \o w.scheduled
    /\ UNCHANGED <<schemaVars, listVars, dictVars, inTransaction, registered, uncaught>>

(* The event loop runs the oldest setImmediate task: () => { throw err; } *)
RunImmediate ==
    /\ immediates # << >>
    /\ uncaught' = Append(uncaught, Head(immediates))
    /\ immediates' = Tail(immediates)
    /\ UNCHANGED <<schemaVars, listVars, dictVars, inTransaction, registered, deliveries>>

NotifyNext ==
    \/ AddListener
    \/ EngineNotify
    \/ RunImmediate

SpecNotify == InitNotify /\ [][NotifyNext]_vars

-----------------------------------------------------------------------------
(* Properties *)

(* The canonical property schemas the last call returned *)
ReturnedProperties ==
    IF call.fn = "normalizePropertySchema" /\ call.ret.ok THEN {call.ret.val}
    ELSE IF call.fn = "normalizeObjectSchema" /\ call.ret.ok
    THEN {call.ret.val.properties[i].schema : i \in 1..Len(call.ret.val.properties)}
    ELSE {}

IsMixed(p) ==
    p.type = Str("mixed") \/ ("objectType" \in DOMAIN p /\ p.objectType = Str("mixed"))

(* C1: every canonical property schema returned by normalizePropertySchema or
   inside a schema returned by normalizeObjectSchema whose type or objectType
   is "mixed" has optional other than false. *)
C1_MixedIsOptional ==
    \A p \in ReturnedProperties : IsMixed(p) => p.optional # FALSE

(* Array.prototype.splice on a sequence: the removed elements and the sequence left *)
Max(a, b) == IF a > b THEN a ELSE b

ArraySplice(items, start, deleteCount, newItems) ==
    LET len == Len(items)
        actualStart == IF start < 0 THEN Max(len + start, 0) ELSE Min(start, len)
        actualDeleteCount == IF deleteCount.given
                             THEN Min(Max(deleteCount.n, 0), len - actualStart)
                             ELSE len - actualStart
    IN  [removed |-> SubSeq(items, actualStart + 1, actualStart + actualDeleteCount),
         left |-> SubSeq(items, 1, actualStart) \o newItems
                  \o SubSeq(items, actualStart + actualDeleteCount + 1, len)]

SpliceAgrees ==
    LET expected == ArraySplice(Values(listCall.before), listCall.args.start,
                                listCall.args.deleteCount, listCall.args.items)
    IN  /\ listCall.err = "none"
        /\ listCall.ret = expected.removed
        /\ Values(list) = expected.left

PlainSplice == listCall.op = "splice" /\ listCall.tx /\ ~isEmbedded

(* C2: List.splice clamps its start index: a start below -length is clamped to
   0, so the call behaves as splice(0, ...) and no engine call is made with a
   negative index, and a start above length is clamped to length. *)
C2_SpliceClampsStart ==
    PlainSplice =>
        /\ \A i \in 1..Len(listCall.log) : listCall.log[i].index >= 0
        /\ (listCall.args.start < -Len(listCall.before)
            \/ listCall.args.start > Len(listCall.before)) => SpliceAgrees

(* What a generator is to yield: the dictionary's content when the method was called *)
ContentAtCall(g) ==
    IF g.kind = "keys" THEN KeysOf(g.atCall)
    ELSE IF g.kind = "values" THEN Values(ValuesOf(g.atCall))
    ELSE [i \in 1..Len(g.atCall) |-> <<g.atCall[i][1], fromBinding(g.atCall[i][2])>>]

IsPrefix(a, b) == Len(a) <= Len(b) /\ a = SubSeq(b, 1, Len(a))

(* C3: the sequence keys(), values() or entries() produces holds the
   dictionary's content at the moment the method was called, whatever set and
   remove operations run before or while the sequence is consumed. *)
C3_SnapshotAtCallTime ==
    \A i \in 1..Len(gens) :
        /\ IsPrefix(gens[i].yielded, ContentAtCall(gens[i]))
        /\ gens[i].done => gens[i].yielded = ContentAtCall(gens[i])

MutatingListCall == listCall.op \in {"set", "pop", "push", "shift", "unshift", "splice"}

MutatingDictCall ==
    \/ dictCall.op \in {"set", "remove"}
    \/ dictCall.op \in {"proxy.set", "proxy.deleteProperty"} /\ dictCall.args.prop.kind = "string"

(* C4: every mutating operation of the adapters, called outside a write
   transaction, fails with the adapter's transaction-state error before any
   engine call is made, and leaves the collection unchanged. *)
C4_MutationsAssertTransaction ==
    /\ (MutatingListCall /\ ~listCall.tx) =>
           /\ listCall.log = << >>
           /\ listCall.err = "TransactionStateError"
           /\ list = listCall.before
    /\ (MutatingDictCall /\ ~dictCall.tx) =>
           /\ dictCall.log = << >>
           /\ dictCall.err = "TransactionStateError"
           /\ dict = dictCall.before

CollectionSuffixes == {"[]", "<>", "{}"}

NestedCollection(type) ==
    /\ Len(type) >= 2
    /\ type[Len(type)] \in CollectionSuffixes
    /\ type[Len(type) - 1] \in CollectionSuffixes

(* C5: normalizePropertyType fails whenever the item type in front of a
   collection suffix itself ends in a collection suffix. *)
C5_NestedCollectionFails ==
    (call.fn = "normalizePropertyType" /\ NestedCollection(call.type)) => ~call.ret.ok

(* C6: for every remainder r that normalizePropertyType accepts,
   normalizePropertyType(r + "?") is normalizePropertyType(r) with optional set
   to true, and "Person?[]" yields the list schema "Person[]" yields. *)
C6_OptionalSuffixRecurses ==
    (call.fn = "normalizePropertyType" /\ call.allowObjectType) =>
        /\ EndsWith(call.type, "?") =>
               LET r == normalizePropertyType(DropSuffix(call.type), TRUE)
               IN  r.ok => call.ret = Return(Spread(r.val, [optional |-> TRUE]))
        /\ call.type = <<"Person", "?", "[]">> =>
               call.ret = Return([type |-> Str("list"), objectType |-> Str("Person"),
                                  optional |-> FALSE])

CanonicalTypes ==
    {"bool", "int", "float", "double", "decimal128", "objectId", "string", "data",
     "date", "mixed", "uuid", "object", "list", "set", "dictionary"}

(* C7: the type of every canonical property schema normalizePropertySchema
   returns is one of the fifteen canonical type names; a user-defined schema
   name ends up in objectType, never in type. *)
C7_TypeIsCanonical ==
    (call.fn = "normalizePropertySchema" /\ call.ret.ok) =>
        /\ Len(call.ret.val.type) = 1
        /\ call.ret.val.type[1] \in CanonicalTypes

Occurrences(seq, e) == Cardinality({i \in 1..Len(seq) : seq[i] = e})

(* C8: when a user callback throws during delivery, the wrapper returns normally
   to the engine, the error is held by exactly one scheduled task or has been
   raised exactly once from such a task, never both and never twice, and the
   engine can go on delivering. *)
C8_CallbackErrorDeferred ==
    /\ \A i \in 1..Len(deliveries) :
        /\ deliveries[i].outcome = "returned"
        /\ Occurrences(immediates, i) + Occurrences(uncaught, i)
               = IF deliveries[i].behaviour = "returns" THEN 0 ELSE 1
    /\ \A i \in 1..Len(immediates) : immediates[i] \in 1..Len(deliveries)
    /\ \A i \in 1..Len(uncaught) : uncaught[i] \in 1..Len(deliveries)
    /\ (registered > 0 /\ Len(deliveries) < MaxDeliveries) => ENABLED EngineNotify

(* A callback threw, its error was raised from the scheduled task, and a later
   notification was delivered *)
C8_Witness ==
    \E i, j \in 1..Len(deliveries) :
        /\ i < j
        /\ deliveries[i].behaviour = "throws"
        /\ Occurrences(uncaught, i) = 1
        /\ deliveries[j].outcome = "returned"

(* C9: for a non-embedded list inside a write transaction and a start of at
   least -length, List.splice returns the removed elements and leaves the list
   content that Array.prototype.splice gives, for every deleteCount (omitted,
   zero, negative, too large) and every item sequence. *)
C9_SpliceMatchesArray ==
    (PlainSplice /\ listCall.args.start >= -Len(listCall.before)) => SpliceAgrees

(* splice(-1) on a three-element list returned the last element and left two *)
C9_Witness ==
    /\ PlainSplice
    /\ Len(listCall.before) = 3
    /\ listCall.args.start = -1
    /\ ~listCall.args.deleteCount.given
    /\ listCall.ret = <<fromBinding(listCall.before[3])>>
    /\ list = SubSeq(listCall.before, 1, 2)

(* The object-form declaration behind a call of normalizeObjectSchema *)
DeclaredSchema(arg) == IF arg.form = "class" THEN arg.schema ELSE arg

DeclaredEntries(arg) ==
    IF DeclaredSchema(arg).propertiesIsArray
    THEN ArrayToEntries(DeclaredSchema(arg).properties)
    ELSE DeclaredSchema(arg).properties

DeclaredIndexed(decl) ==
    IF decl.kind = "object" /\ "indexed" \in DOMAIN decl.defined
    THEN decl.defined.indexed ELSE FALSE

IsPrimaryKey(arg, name) ==
    "primaryKey" \in DOMAIN DeclaredSchema(arg) /\ DeclaredSchema(arg).primaryKey = name

(* C10: in every object schema normalizeObjectSchema returns, the property the
   declared primaryKey names has indexed = true, whatever its declaration says,
   and every other property has its declared indexed value, false by default. *)
C10_PrimaryKeyIndexed ==
    (call.fn = "normalizeObjectSchema" /\ call.ret.ok) =>
        LET declared == DeclaredEntries(call.arg)
            returned == call.ret.val.properties
        IN  /\ Len(returned) = Len(declared)
            /\ \A i \in 1..Len(returned) :
                /\ returned[i].name = declared[i].name
                /\ returned[i].schema.indexed =
                       IF IsPrimaryKey(call.arg, returned[i].name) THEN TRUE
                       ELSE DeclaredIndexed(declared[i].decl)

(* A schema came back whose primary key was declared indexed: false and which
   has another property *)
C10_Witness ==
    /\ call.fn = "normalizeObjectSchema" /\ call.ret.ok
    /\ \E i, j \in 1..Len(call.ret.val.properties) :
        /\ i # j
        /\ IsPrimaryKey(call.arg, call.ret.val.properties[i].name)
        /\ DeclaredEntries(call.arg)[i].decl.kind = "object"
        /\ "indexed" \in DOMAIN DeclaredEntries(call.arg)[i].decl.defined
        /\ ~DeclaredEntries(call.arg)[i].decl.defined.indexed
        /\ call.ret.val.properties[i].schema.indexed

-----------------------------------------------------------------------------
(* The three conditions under which validation rejects a canonical property *)
ListOfLists(p) ==
    p.type = Str("list") /\ "objectType" \in DOMAIN p /\ p.objectType = Str("list")

OptionalListOfNonPrimitives(p) ==
    /\ p.type = Str("list")
    /\ p.optional = TRUE
    /\ ~("objectType" \in DOMAIN p /\ \E t \in PRIMITIVE_TYPES : p.objectType = Str(t))

EmptyObjectType(p) == "objectType" \in DOMAIN p /\ p.objectType = << >>

Rejected(p) == ListOfLists(p) \/ OptionalListOfNonPrimitives(p) \/ EmptyObjectType(p)

(* C11: validateCanonicalPropertySchema throws exactly for a list of lists, an
   optional list whose objectType is not a primitive type, and an empty
   objectType; and a schema normalizeObjectSchema returns has no property
   meeting one of the three, neither as returned nor as its declaration
   normalizes. *)
C11_ValidationRejects ==
    /\ call.fn = "validateCanonicalPropertySchema" =>
           (call.ret.ok <=> ~Rejected(call.arg))
    /\ (call.fn = "normalizeObjectSchema" /\ call.ret.ok) =>
           /\ \A i \in 1..Len(call.ret.val.properties) :
                  ~Rejected(call.ret.val.properties[i].schema)
           /\ \A i \in 1..Len(DeclaredEntries(call.arg)) :
                  LET e == DeclaredEntries(call.arg)[i]
                      r == normalizePropertySchema(e.name, e.decl)
                  IN  r.ok /\ ~Rejected(r.val)

(* normalizeObjectSchema failed on its second property, which validation
   rejects, after a first property that validation accepts *)
C11_Witness ==
    /\ call.fn = "normalizeObjectSchema" /\ ~call.ret.ok
    /\ call.arg.form = "object" /\ ~call.arg.propertiesIsArray
    /\ Len(call.arg.properties) = 2
    /\ LET first == normalizePropertySchema(call.arg.properties[1].name,
                                            call.arg.properties[1].decl)
           second == normalizePropertySchema(call.arg.properties[2].name,
                                             call.arg.properties[2].decl)
       IN  /\ first.ok /\ ~Rejected(first.val)
           /\ second.ok /\ EmptyObjectType(second.val)

-----------------------------------------------------------------------------
(* A List.set call inside a write transaction with an index of the list *)
ValidSet ==
    /\ listCall.op = "set"
    /\ listCall.tx
    /\ listCall.args.index \in 0..(Len(listCall.before) - 1)

(* C14: List.set with a valid index inside a write transaction replaces only
   the element at that index: the list keeps its length and every other
   element keeps its position, in an embedded list as in any other. *)
C14_SetReplacesOneElement ==
    ValidSet =>
        /\ listCall.err = "none"
        /\ Len(list) = Len(listCall.before)
        /\ \A i \in 1..Len(listCall.before) :
               i # listCall.args.index + 1 => list[i] = listCall.before[i]

-----------------------------------------------------------------------------
(* The keys a Dictionary.remove call was given *)
RemovedKeys(key) ==
    IF key.kind = "string" THEN {key.key} ELSE {key.keys[i] : i \in 1..Len(key.keys)}

KeptPair(pair) == pair[1] \notin RemovedKeys(dictCall.args.key)

(* C13: inside a write transaction Dictionary.remove does not raise, whether
   or not the dictionary holds the keys given, and leaves exactly the pairs
   whose key was not given, unchanged and in their order: absent keys are
   skipped and present ones removed. *)
C13_RemoveAbsentKey ==
    (dictCall.op = "remove" /\ dictCall.tx) =>
        /\ dictCall.err = "none"
        /\ dict = SelectSeq(dictCall.before, KeptPair)

(* remove([absent, present]) returned: the absent key was skipped and the
   present one removed *)
C13_Witness ==
    /\ dictCall.op = "remove" /\ dictCall.tx
    /\ dictCall.args.key.kind = "array"
    /\ Len(dictCall.args.key.keys) = 2
    /\ ~HasKey(dictCall.before, dictCall.args.key.keys[1])
    /\ HasKey(dictCall.before, dictCall.args.key.keys[2])
    /\ dictCall.err = "none"
    /\ Len(dict) = Len(dictCall.before) - 1

-----------------------------------------------------------------------------
(* A call of normalizePropertyType(type) with allowObjectType left at its default *)
ParsedType(type) ==
    call.fn = "normalizePropertyType" /\ call.type = type /\ call.allowObjectType

(* A call of normalizePropertySchema(name, type) with a string declaration *)
NormalizedString(type) ==
    call.fn = "normalizePropertySchema" /\ call.schema = StringDecl(type)

(* C15: normalizePropertyType("<>") returns {set, mixed, optional false} and
   normalizePropertyType("{}") returns {dictionary, mixed, optional true};
   normalizePropertySchema fails on "<>" with the mixed-must-be-optional
   error, and succeeds with optional true on "{}" and on "mixed<>". *)
C15_BareShorthandAsymmetry ==
    /\ ParsedType(<<"<>">>) =>
           call.ret = Return([type |-> Str("set"), objectType |-> Str("mixed"),
                              optional |-> FALSE])
    /\ ParsedType(<<"{}">>) =>
           call.ret = Return([type |-> Str("dictionary"), objectType |-> Str("mixed"),
                              optional |-> TRUE])
    /\ NormalizedString(<<"<>">>) =>
           call.ret = Throw("Mixed values should be declared as optional")
    /\ NormalizedString(<<"{}">>) =>
           /\ call.ret.ok
           /\ call.ret.val.type = Str("dictionary")
           /\ call.ret.val.objectType = Str("mixed")
           /\ call.ret.val.optional = TRUE
    /\ NormalizedString(<<"mixed", "<>">>) =>
           /\ call.ret.ok
           /\ call.ret.val.type = Str("set")
           /\ call.ret.val.objectType = Str("mixed")
           /\ call.ret.val.optional = TRUE

(* normalizePropertySchema was called with "<>" and failed on the mixed assertion *)
C15_Witness ==
    /\ NormalizedString(<<"<>">>)
    /\ ~call.ret.ok
    /\ call.ret.err = "Mixed values should be declared as optional"

-----------------------------------------------------------------------------
(* The fields of an object declaration other than type that have a value, and
   the fields normalizePropertyType derives from its type *)
CallerFields(schema) == Without(schema.defined, "type")

DerivedFields(schema) ==
    normalizePropertyType(schema.defined.type,
                          "objectType" \notin DOMAIN CallerFields(schema)).val

DefaultFields(name) == [indexed |-> FALSE, optional |-> FALSE, mapTo |-> name]

(* C12: in a property schema normalizePropertySchema returns for an object
   declaration, name is the property key; every other field has the caller's
   value if the caller gave one, else the value derived from the type, else
   the default indexed false, optional false, mapTo the property key; a field
   the caller left undefined counts as not given.  The Person schema's age and
   friends come out as stated. *)
C12_MergePrecedence ==
    /\ (call.fn = "normalizePropertySchema" /\ call.schema.kind = "object" /\ call.ret.ok) =>
           LET caller == CallerFields(call.schema)
               derived == DerivedFields(call.schema)
               defaults == DefaultFields(call.name)
               result == call.ret.val
           IN  /\ DOMAIN result =
                      {"name"} \cup DOMAIN caller \cup DOMAIN derived \cup DOMAIN defaults
               /\ \A f \in DOMAIN result :
                      result[f] = IF f = "name" THEN call.name
                                  ELSE IF f \in DOMAIN caller THEN caller[f]
                                  ELSE IF f \in DOMAIN derived THEN derived[f]
                                  ELSE defaults[f]
    /\ (call.fn = "normalizeObjectSchema" /\ call.arg = PersonSchema) =>
           /\ call.ret.ok
           /\ call.ret.val.properties[2] =
                  [name |-> "age",
                   schema |-> [type |-> Str("int"), optional |-> TRUE, indexed |-> FALSE,
                               mapTo |-> "age", name |-> "age"]]
           /\ call.ret.val.properties[3] =
                  [name |-> "friends",
                   schema |-> [type |-> Str("list"), objectType |-> Str("Person"),
                               optional |-> FALSE, indexed |-> FALSE,
                               mapTo |-> "friends", name |-> "friends"]]

(* A declaration whose stated optional: false won over the optional: true its
   type derives *)
C12_Witness ==
    /\ call.fn = "normalizePropertySchema" /\ call.schema.kind = "object" /\ call.ret.ok
    /\ "optional" \in DOMAIN CallerFields(call.schema)
    /\ CallerFields(call.schema).optional = FALSE
    /\ "optional" \in DOMAIN DerivedFields(call.schema)
    /\ DerivedFields(call.schema).optional = TRUE
    /\ call.ret.val.optional = FALSE


=============================================================================
